---- MODULE Spec2Model ----
(***************************************************************************)
(* Model of the document catalogue of apex_document_repo:                  *)
(*   - getAllDocs / readYAML  (src/tailwind.config.cjs, lines 21-80)       *)
(*   - FileIcon               (src/src/components/react/FileIcon.tsx)      *)
(*                                                                         *)
(* JavaScript strings are modelled as sequences of one-character strings,  *)
(* so that concatenation, endsWith, split, toLowerCase and the regular     *)
(* expression /\.(yml|yaml)$/i are computed and not assumed.               *)
(***************************************************************************)
EXTENDS Integers, Sequences, FiniteSets, Bags, TLC

VARIABLES fs, pc, heap, calls, defaultExport, rendered

vars == <<fs, pc, heap, calls, defaultExport, rendered>>

(***************************************************************************)
(* Bounds of the model.                                                    *)
(***************************************************************************)
\* sidecars of the project whose dates vary
MaxFiles == 3
\* entries of a directory whose names, kinds or contents vary
MaxEntries == 2
\* calls of getAllDocs made by importers after the module has loaded
MaxCalls == 2
\* days before 1970-01-01 a sidecar date may lie
PastDays == 1
\* days after 1970-01-01 a sidecar date may lie
FutureDays == 1
\* icons rendered on one page
MaxRenders == 2

(***************************************************************************)
(* Strings.                                                                *)
(***************************************************************************)
UpperCase == <<"A","B","C","D","E","F","G","H","I","J","K","L","M",
               "N","O","P","Q","R","S","T","U","V","W","X","Y","Z">>

LowerCase == <<"a","b","c","d","e","f","g","h","i","j","k","l","m",
               "n","o","p","q","r","s","t","u","v","w","x","y","z">>

ToLowerChar(c) ==
    IF \E i \in 1..26 : UpperCase[i] = c
    THEN LowerCase[CHOOSE i \in 1..26 : UpperCase[i] = c]
    ELSE c

\* String.prototype.toLowerCase
ToLowerCase(s) == [i \in 1..Len(s) |-> ToLowerChar(s[i])]

\* String.prototype.endsWith
EndsWith(s, suffix) ==
    /\ Len(s) >= Len(suffix)
    /\ SubSeq(s, Len(s) - Len(suffix) + 1, Len(s)) = suffix

DropLast(s, n) == SubSeq(s, 1, Len(s) - n)

DotYml == <<".","y","m","l">>

DotYaml == <<".","y","a","m","l">>

\* the index of the last "." of s, 0 when s holds none
LastDot(s) ==
    IF \E i \in 1..Len(s) : s[i] = "."
    THEN CHOOSE i \in 1..Len(s) :
            s[i] = "." /\ \A j \in (i+1)..Len(s) : s[j] # "."
    ELSE 0

\* s.split(".").pop(): the last piece of s cut at every "."
\* (the whole of s when s holds no ".")
SplitPop(s) == SubSeq(s, LastDot(s) + 1, Len(s))

(***************************************************************************)
(* JavaScript values held by a parsed sidecar.                             *)
(*   undefined    the key is absent                                        *)
(*   string       a YAML string                                            *)
(*   date         a YAML timestamp, n days after 1970-01-01                *)
(*   null         null (a filename prop of FileIcon)                       *)
(*   unprintable  a YAML mapping with a key toString, e.g. {toString: 1}:  *)
(*                an object whose conversion to a primitive throws         *)
(***************************************************************************)
Undefined == [t |-> "undefined", s |-> <<>>, n |-> 0]

Str(s) == [t |-> "string", s |-> s, n |-> 0]

DateV(n) == [t |-> "date", s |-> <<>>, n |-> n]

Unprintable == [t |-> "unprintable", s |-> <<>>, n |-> 0]

Null == [t |-> "null", s |-> <<>>, n |-> 0]

\* ToBoolean
Truthy(v) ==
    CASE v.t = "undefined" -> FALSE
      [] v.t = "null" -> FALSE
      [] v.t = "string" -> v.s # <<>>
      [] OTHER -> TRUE

\* whether ToPrimitive(v) throws a TypeError
ToPrimitiveThrows(v) == v.t = "unprintable"

\* ToString(v) for the values whose conversion does not throw
JsToString(v) ==
    CASE v.t = "undefined" -> <<"u","n","d","e","f","i","n","e","d">>
      [] v.t = "string" -> v.s
      [] OTHER -> <<>>

\* a parsed mapping: the keys the code reads, and one it does not
Meta(format, date, title) == [format |-> format, date |-> date, title |-> title]

\* {}
EmptyMap == Meta(Undefined, Undefined, Undefined)

(***************************************************************************)
(* The filesystem under ./public/docs.                                     *)
(*   fs       [root: "absent" | "file" | "dir", listable, entries]         *)
(*   entries  the directory entries in the order the scan returns them     *)
(*   a root entry      [name, isDir, listable, entries]                    *)
(*   a project entry   [name, isFile, readable, doc]                       *)
(*   doc      [kind: "invalid" | "empty" | "mapping", map]                 *)
(***************************************************************************)
Doc(kind, map) == [kind |-> kind, map |-> map]

FileEntry(name, isFile, readable, doc) ==
    [name |-> name, isFile |-> isFile, readable |-> readable, doc |-> doc]

RootEntry(name, isDir, listable, entries) ==
    [name |-> name, isDir |-> isDir, listable |-> listable, entries |-> entries]

Tree(root, listable, entries) ==
    [root |-> root, listable |-> listable, entries |-> entries]

Thrown == [threw |-> TRUE, value |-> <<>>]

Ok(v) == [threw |-> FALSE, value |-> v]

\* fs.existsSync(PUBLIC_DOCS)
ExistsSync(tree) == tree.root # "absent"

\* fs.readdirSync(PUBLIC_DOCS, {withFileTypes: true}): ENOTDIR when the root
\* is no directory, EACCES when it cannot be listed
ReaddirRoot(tree) ==
    IF tree.root = "dir" /\ tree.listable THEN Ok(tree.entries) ELSE Thrown

IsDirectory(d) == d.isDir

\* the entry path.join(PUBLIC_DOCS, project) names
ProjectDir(tree, project) ==
    CHOOSE d \in {tree.entries[i] : i \in 1..Len(tree.entries)} : d.name = project

\* fs.readdirSync(projectDir, {withFileTypes: true})
ReaddirProject(dir) ==
    IF dir.isDir /\ dir.listable THEN Ok(dir.entries) ELSE Thrown

\* f.isFile() && (f.name.endsWith(".yml") || f.name.endsWith(".yaml"))
IsSidecar(f) ==
    f.isFile /\ (EndsWith(f.name, DotYml) \/ EndsWith(f.name, DotYaml))

\* xs.map(x => x.name)
Names(xs) == [i \in 1..Len(xs) |-> xs[i].name]

\* fs.readFileSync(filePath, "utf8")
ReadFileSync(file) == IF file.readable THEN Ok(file.doc) ELSE Thrown

\* yaml.load(raw): throws on a syntax error, undefined for an empty document
YamlLoad(doc) ==
    CASE doc.kind = "invalid" -> Thrown
      [] doc.kind = "empty" -> Ok([defined |-> FALSE, map |-> EmptyMap])
      [] OTHER -> Ok([defined |-> TRUE, map |-> doc.map])

\* readYAML: try { return yaml.load(raw) || {} } catch (e) { return {} }
ReadYAML(file) ==
    LET raw == ReadFileSync(file)
        loaded == YamlLoad(raw.value)
    IN  IF raw.threw THEN EmptyMap
        ELSE IF loaded.threw THEN EmptyMap
        ELSE IF loaded.value.defined THEN loaded.value.map
        ELSE EmptyMap

\* propFile.replace(/\.(yml|yaml)$/i, "")
StripYamlExt(propFile) ==
    IF EndsWith(ToLowerCase(propFile), DotYml) THEN DropLast(propFile, 4)
    ELSE IF EndsWith(ToLowerCase(propFile), DotYaml) THEN DropLast(propFile, 5)
    ELSE propFile

DocsPrefix == <<"/","d","o","c","s","/">>

\* a link that leaves the project directory out
MakeUrl_NoProject(project, filename) == DocsPrefix \o filename

\* `/docs/${project}/${filename}`
MakeUrl(project, filename) == DocsPrefix \o project \o <<"/">> \o filename

\* propFile.replace(...) + "." + meta.format
MakeFilename(propFile, meta) ==
    StripYamlExt(propFile) \o <<".">> \o JsToString(meta.format)

\* the object pushed for one sidecar
MakeRecord(project, propFile, meta) ==
    [project  |-> project,
     filename |-> MakeFilename(propFile, meta),
     slug     |-> StripYamlExt(propFile),
     meta     |-> meta,
     url      |-> MakeUrl(project, MakeFilename(propFile, meta))]

\* the loop over the sidecars of one project; throws when "." + meta.format does
RECURSIVE ForFiles(_, _, _, _)
ForFiles(project, dir, files, projects) ==
    IF files = <<>> THEN Ok(projects)
    ELSE LET propFile == Head(files)
             file == CHOOSE f \in {dir.entries[i] : i \in 1..Len(dir.entries)} :
                        f.name = propFile
             meta == ReadYAML(file)
         IN  IF ToPrimitiveThrows(meta.format) THEN Thrown
             ELSE ForFiles(project, dir, Tail(files),
                           Append(projects, MakeRecord(project, propFile, meta)))

\* the loop over the project directories; throws when a listing does
RECURSIVE ForProjects(_, _, _)
ForProjects(tree, projectNames, projects) ==
    IF projectNames = <<>> THEN Ok(projects)
    ELSE LET project == Head(projectNames)
             dir == ProjectDir(tree, project)
             listing == ReaddirProject(dir)
             files == Names(SelectSeq(listing.value, IsSidecar))
             pushed == ForFiles(project, dir, files, projects)
         IN  IF listing.threw THEN Thrown
             ELSE IF pushed.threw THEN Thrown
             ELSE ForProjects(tree, Tail(projectNames), pushed.value)

\* a.meta.date ? new Date(a.meta.date) : new Date(0), as a time value
DateOrEpoch(rec) == IF Truthy(rec.meta.date) THEN rec.meta.date.n ELSE 0

\* (a, b) => db - da
Comparator(a, b) == DateOrEpoch(b) - DateOrEpoch(a)

\* the comparator throws on a record whose date cannot be made a primitive
ComparatorThrows(rec) == Truthy(rec.meta.date) /\ ToPrimitiveThrows(rec.meta.date)

\* one insertion of a stable sort: x goes after every element not greater
RECURSIVE SortInsert(_, _)
SortInsert(sorted, x) ==
    IF sorted = <<>> THEN <<x>>
    ELSE IF Comparator(sorted[Len(sorted)], x) > 0
         THEN Append(SortInsert(DropLast(sorted, 1), x), sorted[Len(sorted)])
         ELSE Append(sorted, x)

RECURSIVE SortFrom(_, _)
SortFrom(sorted, rest) ==
    IF rest = <<>> THEN sorted
    ELSE SortFrom(SortInsert(sorted, Head(rest)), Tail(rest))

\* projects.sort(comparator): Array.prototype.sort is stable; with two or
\* more elements every element is compared at least once
ArraySort(projects) ==
    IF Len(projects) >= 2 /\ \E i \in 1..Len(projects) : ComparatorThrows(projects[i])
    THEN Thrown
    ELSE Ok(SortFrom(<<>>, projects))

\* a projects array kept at module level: each call goes on filling the
\* array the call before it filled
NewArray_ModuleLevel(h) == IF h = <<>> THEN <<>> ELSE h[Len(h) - 1]

\* const projects = []: a new, empty array on every call
NewArray(h) == <<>>

\* getAllDocs(): the array it returns, or the exception it lets through;
\* projects is the array the call starts from
GetAllDocs(tree, projects) ==
    IF ~ExistsSync(tree) THEN Ok(<<>>)
    ELSE LET listing == ReaddirRoot(tree)
             projectNames == Names(SelectSeq(listing.value, IsDirectory))
             pushed == ForProjects(tree, projectNames, projects)
             sorted == ArraySort(pushed.value)
         IN  IF listing.threw THEN Thrown
             ELSE IF pushed.threw THEN Thrown
             ELSE sorted

(***************************************************************************)
(* FileIcon.                                                               *)
(***************************************************************************)
\* (filename || "").toString().split(".").pop()?.toLowerCase() || ""
IconExt(filename) ==
    ToLowerCase(SplitPop(IF Truthy(filename) THEN JsToString(filename) ELSE <<>>))

\* the switch over ext, by the component each case returns
FileIconOf(filename) ==
    LET ext == IconExt(filename)
    IN  CASE ext = <<"p","d","f">> -> "FaFilePdf"
          [] ext \in {<<"d","o","c">>, <<"d","o","c","x">>} -> "FaFileWord"
          [] ext \in {<<"x","l","s">>, <<"x","l","s","x">>} -> "FaFileExcel"
          [] ext \in {<<"p","p","t">>, <<"p","p","t","x">>} -> "FaFilePowerpoint"
          [] ext \in {<<"z","i","p">>, <<"t","g","z">>, <<"t","a","r">>, <<"g","z">>}
               -> "FaFileArchive"
          [] OTHER -> "FaFileAlt"

(***************************************************************************)
(* The filesystems the model starts from.                                  *)
(***************************************************************************)
\* the sequences of at most n elements of S with pairwise different names
DistinctSeqs(S, n) ==
    {q \in UNION {[1..k -> S] : k \in 0..n} :
        \A i, j \in 1..Len(q) : i # j => q[i].name # q[j].name}

Pdf == Str(<<"p","d","f">>)

Docx == Str(<<"d","o","c","x">>)

GoodDoc == Doc("mapping", Meta(Pdf, DateV(1), Undefined))

\* the i-th sidecar name of a generated project: a.yml, b.yaml, c.yml, ...
SidecarName(i) == <<LowerCase[i]>> \o (IF i % 2 = 1 THEN DotYml ELSE DotYaml)

ProjectP == <<"p">>

ProjectQ == <<"q">>

OneProject(entries) == Tree("dir", TRUE, <<RootEntry(ProjectP, TRUE, TRUE, entries)>>)

\* one project whose sidecars differ in their date only
DateValues == {Undefined} \cup {DateV(d) : d \in (0 - PastDays)..FutureDays}

DateTrees ==
    {OneProject([i \in 1..Len(dates) |->
        FileEntry(SidecarName(i), TRUE, TRUE,
                  Doc("mapping", Meta(Pdf, dates[i], Undefined)))]) :
        dates \in UNION {[1..k -> DateValues] : k \in 0..MaxFiles}}

\* one project whose entries differ in name and kind
EntryNames ==
    {<<"a",".","y","m","l">>, <<"a",".","y","a","m","l">>,
     <<"a",".","Y","M","L">>, <<"a",".","Y","a","m","l">>,
     <<"a",".","p","d","f">>, <<"a",".","y","m","l",".","t","x","t">>,
     <<".","y","m","l">>, <<"y","m","l">>}

NameTrees ==
    {OneProject(entries) :
        entries \in DistinctSeqs(
            {FileEntry(name, isFile, TRUE, GoodDoc) :
                name \in EntryNames, isFile \in BOOLEAN}, MaxEntries)}

\* one project whose sidecars differ in what reading and parsing them gives
DocVariants ==
    {[readable |-> FALSE, doc |-> GoodDoc],
     [readable |-> TRUE, doc |-> Doc("invalid", EmptyMap)],
     [readable |-> TRUE, doc |-> Doc("empty", EmptyMap)]}
    \cup
    {[readable |-> TRUE, doc |-> Doc("mapping", Meta(format, date, title))] :
        format \in {Undefined, Pdf, Unprintable},
        date \in {Undefined, DateV(1)},
        title \in {Undefined, Str(<<"t">>)}}
    \cup
    {[readable |-> TRUE, doc |-> Doc("mapping", Meta(Pdf, Unprintable, Undefined))]}

DocTrees ==
    {OneProject([i \in 1..Len(variants) |->
        FileEntry(SidecarName(i), TRUE, variants[i].readable, variants[i].doc)]) :
        variants \in UNION {[1..k -> DocVariants] : k \in 1..MaxEntries}}

\* roots that are absent, no directory, unlistable, or hold several entries
RootEntries ==
    {RootEntry(<<"x",".","y","m","l">>, FALSE, TRUE, <<>>),
     RootEntry(ProjectP, TRUE, TRUE, <<>>),
     RootEntry(ProjectP, TRUE, TRUE,
               <<FileEntry(SidecarName(1), TRUE, TRUE, GoodDoc)>>),
     RootEntry(ProjectQ, TRUE, TRUE,
               <<FileEntry(SidecarName(2), TRUE, TRUE,
                           Doc("mapping", Meta(Docx, DateV(0), Undefined)))>>),
     RootEntry(ProjectQ, TRUE, TRUE,
               <<FileEntry(SidecarName(1), TRUE, TRUE, Doc("invalid", EmptyMap))>>),
     RootEntry(ProjectQ, TRUE, FALSE,
               <<FileEntry(SidecarName(1), TRUE, TRUE, GoodDoc)>>)}

RootTrees ==
    {Tree("absent", FALSE, <<>>), Tree("file", FALSE, <<>>)}
    \cup
    {Tree("dir", listable, entries) :
        listable \in BOOLEAN, entries \in DistinctSeqs(RootEntries, MaxEntries)}

FileSystems == DateTrees \cup NameTrees \cup DocTrees \cup RootTrees

\* the filename props a page passes to FileIcon
IconExts ==
    {<<>>, <<"p","d","f">>, <<"P","D","F">>, <<"d","o","c">>, <<"D","o","c","x">>,
     <<"d","o","c","x">>, <<"x","l","s">>, <<"x","l","s","x">>, <<"p","p","t">>,
     <<"p","p","t","x">>, <<"z","i","p">>, <<"t","g","z">>, <<"t","a","r">>,
     <<"g","z">>, <<"t","x","t">>}

IconStems == {<<>>, <<"n">>, <<"n",".">>, <<"n",".","t","a","r",".">>}

IconFilenames ==
    {Null, Undefined} \cup {Str(stem \o ext) : stem \in IconStems, ext \in IconExts}

(***************************************************************************)
(* The state machine.                                                      *)
(*   fs             the filesystem                                         *)
(*   pc             "load" before the module is evaluated, then "ready",   *)
(*                  or "failed" when its evaluation threw                  *)
(*   heap           the arrays allocated so far, by reference              *)
(*   calls          one entry per call of getAllDocs: whether it threw,    *)
(*                  the reference it returned, the array as returned       *)
(*   defaultExport  the reference the module exports by default            *)
(*   rendered       the icons rendered so far                              *)
(***************************************************************************)
\* the reference of the array [...projects] makes
ResultRef(h) == Len(h) + 2

\* one call of getAllDocs: the array it fills and sorts, and the copy it returns
Invoke ==
    LET r == GetAllDocs(fs, NewArray(heap))
    IN  /\ calls' = Append(calls,
                [threw |-> r.threw,
                 ref   |-> IF r.threw THEN 0 ELSE ResultRef(heap),
                 value |-> r.value])
        /\ heap' = IF r.threw THEN heap ELSE heap \o <<r.value, r.value>>

Init ==
    /\ fs \in FileSystems
    /\ pc = "load"
    /\ heap = <<>>
    /\ calls = <<>>
    /\ defaultExport = 0
    /\ rendered = <<>>

\* export default getAllDocs(): the call made when the module is evaluated
LoadModule ==
    /\ pc = "load"
    /\ Invoke
    /\ pc' = IF calls'[Len(calls')].threw THEN "failed" ELSE "ready"
    /\ defaultExport' = calls'[Len(calls')].ref
    /\ UNCHANGED <<fs, rendered>>

\* a call of the exported function getAllDocs by an importer
CallGetAllDocs ==
    /\ pc = "ready"
    /\ Len(calls) <= MaxCalls
    /\ Invoke
    /\ UNCHANGED <<fs, pc, defaultExport, rendered>>

\* one rendering of <FileIcon filename={filename} />
FileIcon(filename) ==
    /\ Len(rendered) < MaxRenders
    /\ rendered' = Append(rendered,
            [filename |-> filename, icon |-> FileIconOf(filename)])
    /\ UNCHANGED <<fs, pc, heap, calls, defaultExport>>

Next == LoadModule \/ CallGetAllDocs

Spec == Init /\ [][Next]_vars

\* the pages: FileIcon over filenames, with no documents directory
InitIcon ==
    /\ fs = Tree("absent", FALSE, <<>>)
    /\ pc = "load"
    /\ heap = <<>>
    /\ calls = <<>>
    /\ defaultExport = 0
    /\ rendered = <<>>

NextIcon == \E filename \in IconFilenames : FileIcon(filename)

SpecIcon == InitIcon /\ [][NextIcon]_vars

(***************************************************************************)
(* What the claims speak of.                                               *)
(***************************************************************************)
\* the calls that returned
ReturnedCalls == {i \in DOMAIN calls : ~calls[i].threw}

Elements(q) == {q[i] : i \in 1..Len(q)}

\* the project directories of the root
ProjectDirs == {d \in Elements(fs.entries) : d.isDir}

\* a name that ends in .yml or .yaml as written
HasYamlExt(name) == EndsWith(name, DotYml) \/ EndsWith(name, DotYaml)

\* a name that ends in .yml or .yaml whatever the case of its letters
HasYamlExtAnyCase(name) == HasYamlExt(ToLowerCase(name))

\* the part of a sidecar name before its YAML extension
SlugOfName(name) ==
    IF EndsWith(name, DotYml) THEN DropLast(name, 4) ELSE DropLast(name, 5)

\* the sidecar files of a project directory
SidecarsOf(d) == {f \in Elements(d.entries) : f.isFile /\ HasYamlExt(f.name)}

\* a sidecar that cannot be read, does not parse or is an empty document
IsBroken(f) == ~f.readable \/ f.doc.kind \in {"invalid", "empty"}

HasDate(rec) == rec.meta.date.t # "undefined"

\* how many elements of q satisfy P
Count(q, P(_)) == Cardinality({i \in 1..Len(q) : P(q[i])})

\* C1: the sequence getAllDocs returns is sorted by date descending, a
\* record with no date counting as older than every date: for adjacent
\* records A, B either B has no date, or both have one and A's is not
\* earlier than B's.
C1_SortedMissingDateLowest ==
    \A i \in ReturnedCalls :
        LET out == calls[i].value
        IN  \A k \in 1..(Len(out) - 1) :
                \/ ~HasDate(out[k + 1])
                \/ /\ HasDate(out[k])
                   /\ out[k].meta.date.n >= out[k + 1].meta.date.n

\* C2: in the sequence getAllDocs returns no record without a date stands
\* before a record with a date.
C2_UndatedAfterDated ==
    \A i \in ReturnedCalls :
        LET out == calls[i].value
        IN  \A k, l \in 1..Len(out) :
                (k < l) => ~(~HasDate(out[k]) /\ HasDate(out[l]))

\* C3: no call of getAllDocs throws, whatever the filesystem holds.
C3_NeverThrows == \A i \in DOMAIN calls : ~calls[i].threw

\* C4: for every sidecar of every project directory that was listed, the
\* call returns and its sequence holds exactly one record: as many records
\* carry a (project, slug, meta) as there are sidecars it comes from, where
\* the meta of a broken sidecar is the empty mapping and that of any other
\* is the mapping it parses to.
C4_OneRecordPerSidecar ==
    \A i \in DOMAIN calls :
        (fs.root = "dir" /\ fs.listable) =>
            \A d \in {e \in ProjectDirs : e.listable} : \A f \in SidecarsOf(d) :
                LET meta == IF IsBroken(f) THEN EmptyMap ELSE f.doc.map
                    Same(g) == /\ SlugOfName(g.name) = SlugOfName(f.name)
                               /\ meta = (IF IsBroken(g) THEN EmptyMap ELSE g.doc.map)
                    Match(rec) == /\ rec.project = d.name
                                  /\ rec.slug = SlugOfName(f.name)
                                  /\ rec.meta = meta
                IN  /\ ~calls[i].threw
                    /\ Count(calls[i].value, Match)
                          = Cardinality({g \in SidecarsOf(d) : Same(g)})

\* C5: for every project directory, the sequence getAllDocs returns holds as
\* many records of that project as the directory holds files whose name ends
\* in .yml or .yaml in any case of the letters.
C5_YamlExtAnyCase ==
    \A i \in ReturnedCalls : \A d \in ProjectDirs :
        LET OfProject(rec) == rec.project = d.name
        IN  Count(calls[i].value, OfProject)
                = Cardinality({f \in Elements(d.entries) :
                                  f.isFile /\ HasYamlExtAnyCase(f.name)})

\* C6: in the sequence getAllDocs returns, every sidecar that parses to a
\* mapping with a string format has a record with project the directory name,
\* slug the sidecar name without its YAML extension, filename slug.format and
\* url /docs/project/slug.format; and every record with a string format has
\* filename slug.format and url /docs/project/slug.format.
C6_UrlOfValidSidecar ==
    \A i \in ReturnedCalls :
        LET out == calls[i].value
        IN  /\ \A d \in ProjectDirs : \A f \in SidecarsOf(d) :
                (~IsBroken(f) /\ f.doc.map.format.t = "string") =>
                    \E k \in 1..Len(out) :
                        /\ out[k].project = d.name
                        /\ out[k].slug = SlugOfName(f.name)
                        /\ out[k].slug \o DotYml = f.name
                              \/ out[k].slug \o DotYaml = f.name
                        /\ out[k].meta = f.doc.map
                        /\ out[k].filename
                              = out[k].slug \o <<".">> \o f.doc.map.format.s
                        /\ out[k].url
                              = <<"/","d","o","c","s","/">> \o d.name \o <<"/">>
                                  \o out[k].slug \o <<".">> \o f.doc.map.format.s
            /\ \A k \in 1..Len(out) :
                out[k].meta.format.t = "string" =>
                    /\ out[k].filename
                          = out[k].slug \o <<".">> \o out[k].meta.format.s
                    /\ out[k].url
                          = <<"/","d","o","c","s","/">> \o out[k].project \o <<"/">>
                              \o out[k].filename

\* a call has returned the records of two sidecars with a string format
C6_Witness ==
    \E i \in ReturnedCalls :
        /\ Len(calls[i].value) >= 2
        /\ \A k \in 1..Len(calls[i].value) :
                calls[i].value[k].meta.format.t = "string"
        /\ \E d \in ProjectDirs : \E f, g \in SidecarsOf(d) :
                /\ EndsWith(f.name, DotYml) /\ EndsWith(g.name, DotYaml)
                /\ ~IsBroken(f) /\ ~IsBroken(g)

\* the icon the claim gives a filename: by the letters after its last ".",
\* in any case; the generic icon when it has no "." or is no string
IconByLastDot(filename) ==
    IF filename.t # "string" \/ LastDot(filename.s) = 0 THEN "FaFileAlt"
    ELSE LET ext == ToLowerCase(SubSeq(filename.s, LastDot(filename.s) + 1,
                                       Len(filename.s)))
         IN  CASE ext = <<"p","d","f">> -> "FaFilePdf"
               [] ext \in {<<"d","o","c">>, <<"d","o","c","x">>} -> "FaFileWord"
               [] ext \in {<<"x","l","s">>, <<"x","l","s","x">>} -> "FaFileExcel"
               [] ext \in {<<"p","p","t">>, <<"p","p","t","x">>} -> "FaFilePowerpoint"
               [] ext \in {<<"z","i","p">>, <<"t","g","z">>, <<"t","a","r">>,
                           <<"g","z">>} -> "FaFileArchive"
               [] OTHER -> "FaFileAlt"

\* C7: FileIcon returns the icon of the letters after the last "." of the
\* filename, and the generic icon for a filename with no ".", an
\* unrecognized extension, or no filename.
C7_IconByLastDot ==
    \A k \in 1..Len(rendered) :
        rendered[k].icon = IconByLastDot(rendered[k].filename)

\* C8: in the sequence getAllDocs returns no two records have the same
\* project and slug.
C8_SlugUniqueInProject ==
    \A i \in ReturnedCalls :
        LET out == calls[i].value
        IN  \A k, l \in 1..Len(out) :
                (k # l) => <<out[k].project, out[k].slug>>
                              # <<out[l].project, out[l].slug>>

\* C9: when the root is absent, or is a directory that holds no directory,
\* every call of getAllDocs returns the empty sequence.
C9_NoProjectsGivesEmpty ==
    (fs.root = "absent" \/ (fs.root = "dir" /\ ProjectDirs = {})) =>
        \A i \in DOMAIN calls : ~calls[i].threw /\ calls[i].value = <<>>

\* the calls made so far returned equal sequences, each in an array of its
\* own, and each returned array still holds what it held when returned
CallsAgree ==
    \A i, j \in ReturnedCalls :
        /\ calls[i].value = calls[j].value
        /\ (i # j) => calls[i].ref # calls[j].ref
        /\ calls[i].ref \in DOMAIN heap
        /\ heap[calls[i].ref] = calls[i].value

\* C10: every step leaves the filesystem as it was, and after it all calls
\* made so far have returned equal sequences, in arrays no two calls share
\* and no later call has altered.
C10_Idempotent == [][fs' = fs /\ CallsAgree']_vars

\* three calls have returned a sequence of at least two records
C10_Witness ==
    /\ Cardinality(ReturnedCalls) >= 3
    /\ \A i \in ReturnedCalls : Len(calls[i].value) >= 2

====
